---- MODULE Spec2Model ----
(***************************************************************************)
(* Ranking / feed pipeline of vyb-backend.                                 *)
(*                                                                         *)
(*  - the item store (Postgres table market_items, read through Prisma)    *)
(*  - the fast store (Redis sorted sets feed:top:<segment> and             *)
(*    feed:diversity:<segment>, with their expiry)                         *)
(*  - the Bull queue 'ranking' and the RankingProcessor workers that run   *)
(*    RankingService.rebuildRankings / applyDiversitySampling, one await   *)
(*    per step                                                             *)
(*  - RankingService.getTopMarkets, one await per step                     *)
(*  - FeedService.getNextMarkets (a single findMany)                       *)
(*                                                                         *)
(* Numbers: confidences are fixed point, 1.0 = 1000000; sub-scores are     *)
(* fixed point, 1.0 = 1000.  One unit of model time is 30 days; timestamps *)
(* (updatedAt, endDate, now) are instants at the store's millisecond       *)
(* resolution, abstracted to naturals.                                     *)
(***************************************************************************)
EXTENDS Integers, Sequences, FiniteSets, TLC

\* ------------------------------------------------------------------ bounds
MaxItems == 2        \* markets ingested where the sorted sets are rebuilt
MaxPageItems == 3    \* markets ingested where the feed is paged
MaxNow == 1          \* the clock stops ticking here
MaxQueue == 1        \* jobs waiting in the 'ranking' queue
MaxLimit == 2        \* largest page size requested (the code allows 1..20)
MaxSampled == 11     \* markets the walked sampling loop accepts at most
MaxScored == 3       \* scored markets where the top-K cut is examined by itself
MaxCut == 2          \* cuts examined beside the program's own topK

\* ----------------------------------------------------- program constants
TopK == 1000            \* rebuildRankings: topK
DiversityWindow == 5    \* applyDiversitySampling: window of the tag reset
DiversityTop == 100     \* applyDiversitySampling: zrevrange 0..99
Workers == 2            \* 'ranking' queue: one slot per @Process handler

Ids == 1..(IF MaxItems > MaxPageItems THEN MaxItems ELSE MaxPageItems)
Segments == {"default"}

\* the segments whose sorted sets exist side by side
AllSegments == Segments \cup {"trending"}

\* market i as the connectors report it (fetchMarkets, then normalize)
RawMarket(i) ==
  [lastChange24h |-> IF i % 2 = 1 THEN 10 ELSE 0,
   endDate |-> IF i = 3 THEN 1 ELSE 2,
   tags |-> IF i = 2 THEN <<"politics">> ELSE <<"crypto">>]

Min(a, b) == IF a < b THEN a ELSE b
Max(a, b) == IF a > b THEN a ELSE b
Abs(a) == IF a < 0 THEN 0 - a ELSE a

Take(s, n) == SubSeq(s, 1, Min(n, Len(s)))
Range(s) == {s[k] : k \in 1..Len(s)}
Reverse(s) == [k \in 1..Len(s) |-> s[Len(s) + 1 - k]]

VARIABLES
  now,      \* Date.now(), in model time units
  db,       \* market_items: id -> row
  redis,    \* key -> sorted set (member -> score); the empty function is a missing key
  ttl,      \* key -> TRUE when the key carries an expiry
  queue,    \* 'ranking' queue: waiting jobs -> count
  wk,       \* worker -> state of the job it is processing
  rd,       \* the getTopMarkets call in flight
  feed,     \* the last getNextMarkets call and the pagination run it belongs to
  calc,     \* a computation examined by itself: its inputs, its loop state, its result
  weights,  \* RankingAlgoService.weights, in thousandths
  pull,     \* the IngestionProcessor.handlePull call in flight
  sw,       \* the user's swipes, user_stats row and swipe_token:* keys
  rs,       \* caller -> the recordSwipe call in flight
  rc        \* the FeedService.recalculateRankings call in flight

vars == <<now, db, redis, ttl, queue, wk, rd, feed, calc, weights, pull, sw, rs, rc>>

\* ------------------------------------------------------------ item store
NoRow ==
  [present |-> FALSE, eligible |-> TRUE, endDate |-> 0, updatedAt |-> 0,
   volume |-> 0, liquidity |-> 0, lastChange24h |-> 0, trendScore |-> 0,
   confidence |-> 0, tags |-> << >>]

\* Math.log10(x) * 1000 on the arguments the model uses
Log10Milli(x) ==
  CASE x = 1 -> 0
    [] x = 1000 -> 3000
    [] x = 1000000 -> 6000
    [] OTHER -> 6000

\* Math.exp(-k) * 1000, k whole
ExpNegMilli(k) ==
  CASE k <= -2 -> 7389
    [] k = -1 -> 2718
    [] k = 0 -> 1000
    [] k = 1 -> 368
    [] k = 2 -> 135
    [] k = 3 -> 50
    [] k = 4 -> 18
    [] OTHER -> 7

\* 1 / (1 + exp(-0.0005 * (l - 10000))) * 1000 on the arguments the model uses
SigmoidMilli(l) ==
  CASE l = 10000 -> 500
    [] l < 10000 -> 7
    [] OTHER -> 993

\* a field that holds null
Null == -1000000

\* x || 0
OrZero(x) == IF x = Null THEN 0 ELSE x

\* the weighted sum of calculateScore, before Math.max(0, Math.min(1, rawScore))
RawScore(market, t) ==
  LET normalizedVolume == Min(1000, Log10Milli(market.volume + 1) \div 6)
      volatilityScore == Min(1000, (Abs(OrZero(market.lastChange24h)) * 1000) \div 20)
      daysToEnd == market.endDate - t
      timeUrgency == ExpNegMilli(daysToEnd)
      liquidityScore == IF OrZero(market.liquidity) # 0
                        THEN SigmoidMilli(market.liquidity) ELSE 0
  IN 350 * normalizedVolume + 250 * volatilityScore + 200 * timeUrgency
     + 150 * liquidityScore + 50 * market.trendScore

calculateScore_raw(market, t) == RawScore(market, t)

calculateScore(market, t) == Max(0, Min(1000000, RawScore(market, t)))

\* ------------------------------------------------ RankingAlgoService (v2)
\* sub-scores in thousandths; null behaves as 0 in <=, + and Math.abs
normalizeLiquidity(liquidity) ==
  IF OrZero(liquidity) <= 0 THEN 0 ELSE Min(1000, Log10Milli(liquidity + 1) \div 6)

normalizeVolume(volume) ==
  IF OrZero(volume) <= 0 THEN 0 ELSE Min(1000, Log10Milli(volume + 1) \div 6)

normalizeDrift(priceChange) == Min(1000, (Abs(OrZero(priceChange)) * 1000) \div 20)

\* hoursToEnd / 720 is the time to the end in units of 30 days
calculateTimeDecay(endDate, t) == IF endDate - t <= 0 THEN 0 ELSE ExpNegMilli(endDate - t)

normalizeSocial(mentionScore) == Min(1000, (OrZero(mentionScore) * 1000) \div 100)

clamp(value, min, max) == Min(Max(value, min), max)

\* calculateRanking: confidence and trendScore, 1.0 = 1000000; w in thousandths
calculateRanking(market, t, w) ==
  LET liquidityNorm == normalizeLiquidity(market.liquidity)
      volNorm == normalizeVolume(market.volume24h)
      driftNorm == normalizeDrift(market.priceChange24)
      timeDecay == calculateTimeDecay(market.endDate, t)
      socialNorm == normalizeSocial(market.mentionScore)
  IN [confidence |-> clamp(w.w1 * liquidityNorm + w.w2 * volNorm + w.w3 * driftNorm
                           + w.w4 * socialNorm + w.w5 * timeDecay, 0, 1000000),
      trendScore |-> clamp(500 * driftNorm + 500 * socialNorm, 0, 1000000)]

\* ------------------------------------------------------------ sorted sets
EmptyZ == << >>
TopKey(s) == <<"feed:top", s>>
DiversityKey(s) == <<"feed:diversity", s>>
Keys == {TopKey(s) : s \in AllSegments} \cup {DiversityKey(s) : s \in AllSegments}

\* Redis order of a sorted set: ascending score, ties by member
ZLess(z, a, b) == z[a] < z[b] \/ (z[a] = z[b] /\ a < b)

RECURSIVE ZSorted(_, _)
ZSorted(z, S) ==
  IF S = {} THEN << >>
  ELSE LET m == CHOOSE a \in S : \A b \in S \ {a} : ZLess(z, a, b)
       IN <<m>> \o ZSorted(z, S \ {m})

\* start..stop inclusive, a negative stop counts from the end
ZSlice(s, start, stop) ==
  LET e == IF stop < 0 THEN Len(s) + stop ELSE Min(stop, Len(s) - 1)
  IN IF start > e THEN << >> ELSE SubSeq(s, start + 1, e + 1)

zrange(z, start, stop) == ZSlice(ZSorted(z, DOMAIN z), start, stop)
zrevrange(z, start, stop) == ZSlice(Reverse(ZSorted(z, DOMAIN z)), start, stop)
zadd(z, score, member) ==
  [x \in (DOMAIN z) \cup {member} |-> IF x = member THEN score ELSE z[x]]
exists(z) == DOMAIN z # {}

\* ------------------------------------------------------- queries (Prisma)
RECURSIVE Perms(_)
Perms(S) ==
  IF S = {} THEN {<< >>}
  ELSE UNION {{<<x>> \o p : p \in Perms(S \ {x})} : x \in S}

\* marketItem.findMany of rebuildRankings: eligible, still open; orderBy updatedAt desc.
\* Rows with equal updatedAt come back in any order.
RebuildEligible(d, t) == {i \in Ids : d[i].present /\ d[i].eligible /\ d[i].endDate > t}
RECURSIVE ByUpdatedAtDesc(_, _)
ByUpdatedAtDesc(d, S) ==
  IF S = {} THEN {<< >>}
  ELSE UNION {{<<x>> \o p : p \in ByUpdatedAtDesc(d, S \ {x})} :
                x \in {y \in S : \A z \in S : d[y].updatedAt >= d[z].updatedAt}}

FindManyRebuild(d, t) == ByUpdatedAtDesc(d, RebuildEligible(d, t))

\* scoredMarkets: each row with confidence = calculateScore(row)
ScoredMarkets(d, t, order) ==
  [k \in 1..Len(order) |-> [id |-> order[k], confidence |-> calculateScore(d[order[k]], t)]]

\* Array.prototype.sort((a, b) => b.confidence - a.confidence): stable
RECURSIVE InsertByConfidence(_, _)
InsertByConfidence(sorted, m) ==
  IF sorted = << >> THEN <<m>>
  ELSE IF Head(sorted).confidence >= m.confidence
       THEN <<Head(sorted)>> \o InsertByConfidence(Tail(sorted), m)
       ELSE <<m>> \o sorted

RECURSIVE SortByConfidenceDesc(_)
SortByConfidenceDesc(ms) ==
  IF ms = << >> THEN << >>
  ELSE InsertByConfidence(SortByConfidenceDesc(SubSeq(ms, 1, Len(ms) - 1)), ms[Len(ms)])

\* SliceTop cutting the list as it came, without the sort
SliceTop_unsorted(scored, topK) == Take(scored, topK)

\* scoredMarkets.sort((a, b) => b.confidence - a.confidence).slice(0, topK)
SliceTop(scored, topK) == Take(SortByConfidenceDesc(scored), topK)

\* topMarkets, with topK = 1000
TopMarkets(scored) == SliceTop(scored, TopK)

\* the sorted set once every zadd of the loop has run on an empty key
RECURSIVE ZOfMarkets(_)
ZOfMarkets(ms) ==
  IF ms = << >> THEN EmptyZ
  ELSE zadd(ZOfMarkets(SubSeq(ms, 1, Len(ms) - 1)), ms[Len(ms)].confidence, ms[Len(ms)].id)

\* the transaction of rebuildRankings: confidence of every scored row.  The update
\* passes no updatedAt; the column is NOT NULL without a default and storeMarket creates
\* rows without passing one, so the client may be the one maintaining it on every
\* write (touch), or not
PersistScores(d, scored, touch, t) ==
  [i \in Ids |->
     IF \E k \in 1..Len(scored) : scored[k].id = i
     THEN [d[i] EXCEPT !.confidence =
                         scored[CHOOSE k \in 1..Len(scored) : scored[k].id = i].confidence,
                       !.updatedAt = IF touch THEN t ELSE @]
     ELSE d[i]]

\* FindManyIn without the id filter
FindManyIn_all(d, ids) == Perms({i \in Ids : d[i].present})

\* marketItem.findMany({ where: { id: { in: ids } } }) of applyDiversitySampling: no orderBy
FindManyIn(d, ids) == Perms({i \in Range(ids) : d[i].present})

primaryTag(row) == IF Len(row.tags) > 0 THEN row.tags[1] ELSE "general"

\* the test of the loop: a tag not used since the last reset, or fewer than 5 accepted
SampleAccepts(tag, usedTags, length) == tag \notin usedTags \/ length < DiversityWindow

\* usedTags after a market with this tag was pushed: cleared at every 5th accepted market
SampleUsedTags(tag, usedTags, length) ==
  IF length % DiversityWindow = 0 THEN {} ELSE usedTags \cup {tag}

\* the sampling loop of applyDiversitySampling over rows in the order the store returned them
RECURSIVE SampleLoop(_, _, _, _)
SampleLoop(d, markets, sampled, usedTags) ==
  IF markets = << >> THEN sampled
  ELSE LET m == Head(markets)
           tag == primaryTag(d[m])
       IN IF SampleAccepts(tag, usedTags, Len(sampled))
          THEN LET s2 == Append(sampled, m)
               IN SampleLoop(d, Tail(markets), s2, SampleUsedTags(tag, usedTags, Len(s2)))
          ELSE SampleLoop(d, Tail(markets), sampled, usedTags)

SampledMarkets(d, markets) == SampleLoop(d, markets, << >>, {})

\* ------------------------------------------------------------------ state
\* the delay option of rankingQueue.add in triggerRankingRebuild, in ms
TriggerDelay == 1000

\* a job of the 'ranking' queue: its name, its data {segment, force} and its delay option
ScoreJob(segment, force) ==
  [name |-> "score", segment |-> segment, force |-> force, delay |-> TriggerDelay]
DiversityJob(segment) ==
  [name |-> "diversity", segment |-> segment, force |-> FALSE, delay |-> 0]

Jobs ==
  {ScoreJob(s, f) : s \in AllSegments, f \in BOOLEAN} \cup {DiversityJob(s) : s \in AllSegments}
NoJob == [name |-> "none", segment |-> "default", force |-> FALSE, delay |-> 0]

IdleWorker ==
  [pc |-> "idle", job |-> NoJob, list |-> << >>, i |-> 0, pre |-> EmptyZ, top |-> << >>]

IdleReader ==
  [pc |-> "idle", segment |-> "default", limit |-> 1, result |-> << >>,
   outcome |-> "none", errAt |-> "none", tier |-> "none", dirty |-> FALSE, cands |-> {}]

NoFeed ==
  [outcome |-> "none", cursor |-> << >>, limit |-> 1, tags |-> {}, items |-> << >>,
   nextCursor |-> << >>, hasMore |-> FALSE, hadRanked |-> FALSE, rankedPage |-> << >>,
   run |-> "none", acc |-> << >>, repeated |-> FALSE, again |-> << >>, fresh |-> FALSE]

\* ------------------------------------------------------- recalculation
\* no recalculateRankings call in flight; otherwise the rows findMany returned and the
\* position of the loop
IdleRecalc == [pc |-> "idle", markets |-> << >>, i |-> 0]

\* marketData of recalculateRankings; the model's connectors leave volume24h,
\* priceChange24 and mentionScore at their default 0
MarketData(row) ==
  [liquidity |-> row.liquidity, volume24h |-> 0, priceChange24 |-> 0, mentionScore |-> 0,
   endDate |-> row.endDate]

\* ---------------------------------------------------- transaction errors
\* maxRetries of executeTransaction when the caller passes none
DefaultMaxRetries == 3

\* what one run of $transaction(fn) ends in: fn's result, or an error
TxErrors == {"P2034", "P2002", "deadlock", "serialization", "other"}
TxOutcomes == {"ok"} \cup TxErrors

\* the condition under which executeTransaction retries
Retryable_any(error) == TRUE

Retryable(error) == error \in {"P2034", "P2002", "deadlock", "serialization"}

\* --------------------------------------------------------------- swipes
\* swipe tokens issued and concurrent recordSwipe callers examined
MaxTokens == 1
Callers == 2

\* one user: the markets they swiped (the unique index on (userId, marketId) makes this a
\* set), their user_stats row (totalSwipes = 0: no row), and for each token its Redis key:
\* absent before generateSwipeToken, "issued" by it, "used" by recordSwipe, "gone" when its
\* expiry ran out; presented records that some recordSwipe carried the token
NoSwipes ==
  [rows |-> {}, totalSwipes |-> 0, currentStreak |-> 0, xp |-> 0,
   tokens |-> [t \in 1..MaxTokens |-> "none"],
   presented |-> [t \in 1..MaxTokens |-> FALSE]]

IdleCall ==
  [pc |-> "idle", marketId |-> 0, token |-> 0, outcome |-> "none", xpGained |-> 0,
   created |-> FALSE, first |-> FALSE, seen |-> "none"]

\* calculateXPGain: baseXP + Math.min(streak * 2, 50); the direction is not used
calculateXPGain(streak) == 10 + Min(streak * 2, 50)

\* ------------------------------------------------------------ ingestion
\* ConnectorsService.connectors; connector c reports the markets Reported(c)
NumConnectors == 2
Reported(c) == {i \in 1..MaxItems : (i - 1) % NumConnectors = c - 1}

RECURSIVE AscSeq(_)
AscSeq(S) ==
  IF S = {} THEN << >>
  ELSE LET m == CHOOSE x \in S : \A y \in S : x <= y
       IN <<m>> \o AscSeq(S \ {m})

\* what connector.fetchMarkets can resolve to
FetchedLists(c) == {AscSeq(S) : S \in SUBSET Reported(c)}

\* no 'pull' job in flight; otherwise the job's force flag, the connector the loop is at, the
\* raw markets still to store and the counters of results
IdlePull ==
  [pc |-> "idle", force |-> FALSE, c |-> 0, raw |-> << >>, new |-> 0, updated |-> 0,
   errors |-> 0]

\* ------------------------------------------------------- ranking weights
\* RankingWeights, in thousandths (0.28 is 280); the defaults of the constructor
WeightKeys == {"w1", "w2", "w3", "w4", "w5"}
DefaultWeights == [w1 |-> 280, w2 |-> 220, w3 |-> 160, w4 |-> 240, w5 |-> 100]

\* a key that a Partial<RankingWeights> or the configuration leaves out
Undefined == -1
WeightInputs == {Undefined, 90, 100, 280}

\* a ?? b
Coalesce(a, b) == IF a = Undefined THEN b ELSE a

\* validateWeights: Math.abs(sum - 1.0) < 0.001
validateWeights(w) ==
  LET sum == w.w1 + w.w2 + w.w3 + w.w4 + w.w5
      diff == IF sum >= 1000 THEN sum - 1000 ELSE 1000 - sum
  IN diff < 1

\* no computation examined
NoCalc == [op |-> "none"]

\* sampledMarkets.length, usedTags, and the primary tags of the last 5 accepted markets
NoSampler == [op |-> "sample", length |-> 0, usedTags |-> {}, window |-> << >>]

QueueLen == LET RECURSIVE Sum(_)
                Sum(S) == IF S = {} THEN 0
                          ELSE LET j == CHOOSE x \in S : TRUE IN queue[j] + Sum(S \ {j})
            IN Sum(Jobs)

Init ==
  /\ now = 0
  /\ db = [i \in Ids |-> NoRow]
  /\ redis = [k \in Keys |-> EmptyZ]
  /\ ttl = [k \in Keys |-> FALSE]
  /\ queue = [j \in Jobs |-> 0]
  /\ wk = [w \in 1..Workers |-> IdleWorker]
  /\ rd = IdleReader
  /\ feed = NoFeed
  /\ calc = NoCalc
  /\ weights = DefaultWeights
  /\ pull = IdlePull
  /\ sw = NoSwipes
  /\ rs = [c \in 1..Callers |-> IdleCall]
  /\ rc = IdleRecalc

\* a sorted set changes: a getTopMarkets call in flight is marked, and the record of a
\* call that has returned is dropped (its caller has the result)
RdTouched ==
  IF rd.pc = "done" THEN IdleReader
  ELSE IF rd.pc \in {"exists", "zrange", "zrevrange"} THEN [rd EXCEPT !.dirty = TRUE]
  ELSE rd
\* the item store, a sorted set or the clock changes after the getNextMarkets calls
\* recorded in feed: the client keeps the cursors, the record of the pages is dropped
FeedTouched == [NoFeed EXCEPT !.cursor = feed.cursor, !.nextCursor = feed.nextCursor]

\* ------------------------------------------------------------ environment
Tick ==
  /\ now < MaxNow
  /\ now' = now + 1
  /\ feed' = FeedTouched
  /\ UNCHANGED <<rc, sw, rs, pull, weights, calc, db, redis, ttl, queue, wk, rd>>

\* ConnectorsService.storeMarket: update the row of the market, or create it
StoredMarket(d, i, chg, end, tags, t) ==
  [d EXCEPT ![i] =
     IF d[i].present
     THEN [@ EXCEPT !.lastChange24h = chg, !.endDate = end, !.tags = tags, !.updatedAt = t]
     ELSE [NoRow EXCEPT !.present = TRUE, !.lastChange24h = chg, !.endDate = end,
                        !.tags = tags, !.updatedAt = t]]

storeMarket(i, chg, end, tags) ==
  /\ db' = StoredMarket(db, i, chg, end, tags, now)
  /\ feed' = FeedTouched
  /\ UNCHANGED <<rc, sw, rs, pull, weights, calc, now, redis, ttl, queue, wk, rd>>

\* Redis drops a key whose expiry has passed
KeyExpires(k) ==
  /\ ttl[k]
  /\ exists(redis[k])
  /\ redis' = [redis EXCEPT ![k] = EmptyZ]
  /\ ttl' = [ttl EXCEPT ![k] = FALSE]
  /\ rd' = RdTouched
  /\ feed' = FeedTouched
  /\ UNCHANGED <<rc, sw, rs, pull, weights, calc, now, db, queue, wk>>

\* ---------------------------------------------------------------- queue
triggerRankingRebuild_noForce(segment, force) ==
  LET job == ScoreJob(segment, FALSE)
  IN /\ QueueLen < MaxQueue
     /\ queue' = [queue EXCEPT ![job] = @ + 1]
     /\ UNCHANGED <<rc, sw, rs, pull, weights, calc, now, db, redis, ttl, wk, rd, feed>>

\* RankingService.triggerRankingRebuild: rankingQueue.add('score', {segment, force}, {delay})
triggerRankingRebuild(segment, force) ==
  LET job == ScoreJob(segment, force)
  IN /\ QueueLen < MaxQueue
     /\ queue' = [queue EXCEPT ![job] = @ + 1]
     /\ UNCHANGED <<rc, sw, rs, pull, weights, calc, now, db, redis, ttl, wk, rd, feed>>

\* a 'diversity' job reaches the queue (RankingProcessor consumes them)
addDiversityJob(segment) ==
  LET job == DiversityJob(segment)
  IN /\ QueueLen < MaxQueue
     /\ queue' = [queue EXCEPT ![job] = @ + 1]
     /\ UNCHANGED <<rc, sw, rs, pull, weights, calc, now, db, redis, ttl, wk, rd, feed>>

\* RankingProcessor.handleScore: a free slot of the queue takes a waiting 'score' job
handleScore(w, job) ==
  /\ wk[w].pc = "idle"
  /\ job.name = "score"
  /\ queue[job] > 0
  /\ queue' = [queue EXCEPT ![job] = @ - 1]
  /\ wk' = [wk EXCEPT ![w] = [IdleWorker EXCEPT !.pc = "findMany", !.job = job,
                                                 !.pre = redis[TopKey(job.segment)]]]
  /\ UNCHANGED <<rc, sw, rs, pull, weights, calc, now, db, redis, ttl, rd, feed>>

JobSettles_completedOnly(w) ==
  /\ wk[w].pc = "completed"
  /\ wk' = [wk EXCEPT ![w] = IdleWorker]
  /\ UNCHANGED <<rc, sw, rs, pull, weights, calc, now, db, redis, ttl, queue, rd, feed>>

\* the handler returned or threw: the queue records the job as completed or failed and
\* the slot is free again
JobSettles(w) ==
  /\ wk[w].pc \in {"completed", "failed"}
  /\ wk' = [wk EXCEPT ![w] = IdleWorker]
  /\ UNCHANGED <<rc, sw, rs, pull, weights, calc, now, db, redis, ttl, queue, rd, feed>>

\* ------------------------------------------------------- rebuildRankings
RebuildPcs == {"findMany", "persist", "del", "zadd", "expire"}

\* findMany, then map(calculateScore) (lines 78-96)
RebuildFindMany(w) ==
  /\ wk[w].pc = "findMany"
  /\ \E order \in FindManyRebuild(db, now) :
        wk' = [wk EXCEPT ![w].pc = "persist", ![w].list = ScoredMarkets(db, now, order)]
  /\ UNCHANGED <<rc, sw, rs, pull, weights, calc, now, db, redis, ttl, queue, rd, feed>>

\* executeTransaction(update confidence of every row), then sort and slice (lines 99-112)
RebuildPersist(w) ==
  /\ wk[w].pc = "persist"
  /\ \E touch \in BOOLEAN : db' = PersistScores(db, wk[w].list, touch, now)
  /\ wk' = [wk EXCEPT ![w].pc = "del", ![w].list = TopMarkets(wk[w].list)]
  /\ feed' = FeedTouched
  /\ UNCHANGED <<rc, sw, rs, pull, weights, calc, now, redis, ttl, queue, rd>>

RebuildDel_allSegments(w) ==
  /\ wk[w].pc = "del"
  /\ redis' = [k \in Keys |-> IF k[1] = "feed:top" THEN EmptyZ ELSE redis[k]]
  /\ ttl' = [k \in Keys |-> IF k[1] = "feed:top" THEN FALSE ELSE ttl[k]]
  /\ wk' = [wk EXCEPT ![w].pc = IF wk[w].list = << >> THEN "expire" ELSE "zadd", ![w].i = 1]
  /\ rd' = RdTouched
  /\ feed' = FeedTouched
  /\ UNCHANGED <<rc, sw, rs, pull, weights, calc, now, db, queue>>

\* redis.del(cacheKey) (line 116)
RebuildDel(w) ==
  LET key == TopKey(wk[w].job.segment)
  IN /\ wk[w].pc = "del"
     /\ redis' = [redis EXCEPT ![key] = EmptyZ]
     /\ ttl' = [ttl EXCEPT ![key] = FALSE]
     /\ wk' = [wk EXCEPT ![w].pc = IF wk[w].list = << >> THEN "expire" ELSE "zadd", ![w].i = 1]
     /\ rd' = RdTouched
     /\ feed' = FeedTouched
     /\ UNCHANGED <<rc, sw, rs, pull, weights, calc, now, db, queue>>

\* one redis.zadd of the loop (lines 118-120)
RebuildZadd(w) ==
  LET key == TopKey(wk[w].job.segment)
      market == wk[w].list[wk[w].i]
  IN /\ wk[w].pc = "zadd"
     /\ redis' = [redis EXCEPT ![key] = zadd(@, market.confidence, market.id)]
     /\ wk' = [wk EXCEPT ![w].pc = IF wk[w].i = Len(wk[w].list) THEN "expire" ELSE "zadd",
                          ![w].i = @ + 1]
     /\ rd' = RdTouched
     /\ feed' = FeedTouched
     /\ UNCHANGED <<rc, sw, rs, pull, weights, calc, now, db, ttl, queue>>

\* redis.expire(cacheKey, 3600), then return (lines 123-137)
RebuildExpire(w) ==
  LET key == TopKey(wk[w].job.segment)
  IN /\ wk[w].pc = "expire"
     /\ ttl' = [ttl EXCEPT ![key] = exists(redis[key])]
     /\ wk' = [wk EXCEPT ![w] = [IdleWorker EXCEPT !.pc = "completed", !.job = wk[w].job]]
     /\ UNCHANGED <<rc, sw, rs, pull, weights, calc, now, db, redis, queue, rd, feed>>

\* the await the rebuild is standing at rejects: catch, log, rethrow (lines 138-141);
\* handleScore rethrows and the job fails
RebuildThrows(w) ==
  /\ wk[w].pc \in RebuildPcs
  /\ wk' = [wk EXCEPT ![w] = [IdleWorker EXCEPT !.pc = "failed", !.job = wk[w].job]]
  /\ UNCHANGED <<rc, sw, rs, pull, weights, calc, now, db, redis, ttl, queue, rd, feed>>

\* ------------------------------------------------ applyDiversitySampling
DiversityPcs == {"dzrevrange", "dfindMany", "ddel", "dzadd", "dexpire"}

\* RankingProcessor.handleDiversity: a free slot takes a waiting 'diversity' job
handleDiversity(w, job) ==
  /\ wk[w].pc = "idle"
  /\ job.name = "diversity"
  /\ queue[job] > 0
  /\ queue' = [queue EXCEPT ![job] = @ - 1]
  /\ wk' = [wk EXCEPT ![w] = [IdleWorker EXCEPT !.pc = "dzrevrange", !.job = job]]
  /\ UNCHANGED <<rc, sw, rs, pull, weights, calc, now, db, redis, ttl, rd, feed>>

\* zrevrange(feed:top, 0, 99); an empty result returns at once (lines 151-156)
DiversityZrevrange(w) ==
  LET topMarketIds == zrevrange(redis[TopKey(wk[w].job.segment)], 0, DiversityTop - 1)
  IN /\ wk[w].pc = "dzrevrange"
     /\ wk' = IF topMarketIds = << >>
              THEN [wk EXCEPT ![w] = [IdleWorker EXCEPT !.pc = "completed", !.job = wk[w].job]]
              ELSE [wk EXCEPT ![w].pc = "dfindMany", ![w].list = topMarketIds,
                              ![w].top = topMarketIds]
     /\ UNCHANGED <<rc, sw, rs, pull, weights, calc, now, db, redis, ttl, queue, rd, feed>>

\* findMany({ id: { in } }), then the sampling loop (lines 159-180)
DiversityFindMany(w) ==
  /\ wk[w].pc = "dfindMany"
  /\ \E markets \in FindManyIn(db, wk[w].list) :
        wk' = [wk EXCEPT ![w].pc = "ddel", ![w].list = SampledMarkets(db, markets)]
  /\ UNCHANGED <<rc, sw, rs, pull, weights, calc, now, db, redis, ttl, queue, rd, feed>>

\* redis.del(diversityKey) (line 184)
DiversityDel(w) ==
  LET key == DiversityKey(wk[w].job.segment)
  IN /\ wk[w].pc = "ddel"
     /\ redis' = [redis EXCEPT ![key] = EmptyZ]
     /\ ttl' = [ttl EXCEPT ![key] = FALSE]
     /\ wk' = [wk EXCEPT ![w].pc = IF wk[w].list = << >> THEN "dexpire" ELSE "dzadd", ![w].i = 0]
     /\ rd' = RdTouched
     /\ feed' = FeedTouched
     /\ UNCHANGED <<rc, sw, rs, pull, weights, calc, now, db, queue>>

\* one redis.zadd(diversityKey, i, sampledMarkets[i]) of the loop (lines 186-188)
DiversityZadd(w) ==
  LET key == DiversityKey(wk[w].job.segment)
  IN /\ wk[w].pc = "dzadd"
     /\ redis' = [redis EXCEPT ![key] = zadd(@, wk[w].i, wk[w].list[wk[w].i + 1])]
     /\ wk' = [wk EXCEPT ![w].pc = IF wk[w].i + 1 = Len(wk[w].list) THEN "dexpire" ELSE "dzadd",
                          ![w].i = @ + 1]
     /\ rd' = RdTouched
     /\ feed' = FeedTouched
     /\ UNCHANGED <<rc, sw, rs, pull, weights, calc, now, db, ttl, queue>>

\* redis.expire(diversityKey, 1800), then return (lines 190-203)
DiversityExpire(w) ==
  LET key == DiversityKey(wk[w].job.segment)
  IN /\ wk[w].pc = "dexpire"
     /\ ttl' = [ttl EXCEPT ![key] = exists(redis[key])]
     /\ wk' = [wk EXCEPT ![w] = [IdleWorker EXCEPT !.pc = "completed", !.job = wk[w].job]]
     /\ UNCHANGED <<rc, sw, rs, pull, weights, calc, now, db, redis, queue, rd, feed>>

\* the await the sampling is standing at rejects (lines 204-207)
DiversityThrows(w) ==
  /\ wk[w].pc \in DiversityPcs
  /\ wk' = [wk EXCEPT ![w] = [IdleWorker EXCEPT !.pc = "failed", !.job = wk[w].job]]
  /\ UNCHANGED <<rc, sw, rs, pull, weights, calc, now, db, redis, ttl, queue, rd, feed>>

\* the computation examined by itself returns
CalcReturns ==
  /\ calc # NoCalc
  /\ calc' = NoCalc
  /\ UNCHANGED <<rc, sw, rs, pull, weights, now, db, redis, ttl, queue, wk, rd, feed>>

\* the tag lists the walked markets carry
SampleTagLists == {<< >>, <<"crypto">>, <<"politics">>, <<"sports">>, <<"tech">>}

\* the loop of applyDiversitySampling begins: sampledMarkets = [], usedTags = new Set()
\* (lines 165-166)
SampleStart ==
  /\ calc = NoCalc
  /\ calc' = NoSampler
  /\ UNCHANGED <<rc, sw, rs, pull, weights, now, db, redis, ttl, queue, wk, rd, feed>>

\* one iteration of the loop over a market carrying `tags` (lines 168-180)
SampleNext(tags) ==
  LET tag == primaryTag([tags |-> tags])
      length == calc.length + 1
      window == Append(calc.window, tag)
  IN /\ calc.op = "sample"
     /\ calc.length < MaxSampled
     /\ calc' =
          IF SampleAccepts(tag, calc.usedTags, calc.length)
          THEN [op |-> "sample", length |-> length,
                usedTags |-> SampleUsedTags(tag, calc.usedTags, length),
                window |-> IF Len(window) > DiversityWindow THEN Tail(window) ELSE window]
          ELSE calc
     /\ UNCHANGED <<rc, sw, rs, pull, weights, now, db, redis, ttl, queue, wk, rd, feed>>

\* ---------------------------------------------------------- getTopMarkets
\* the sorted set a rebuild past its findMany is about to publish
RebuildTarget(w) ==
  IF wk[w].pc = "persist" THEN ZOfMarkets(TopMarkets(wk[w].list)) ELSE ZOfMarkets(wk[w].list)

\* the rebuilds of a segment that are past their findMany
Rebuilding(segment) ==
  {w \in 1..Workers : /\ wk[w].job.name = "score"
                      /\ wk[w].job.segment = segment
                      /\ wk[w].pc \in {"persist", "del", "zadd", "expire"}}

getTopMarkets(segment, limit) ==
  /\ rd.pc \in {"idle", "done"}
  /\ rd' = [IdleReader EXCEPT !.pc = "exists", !.segment = segment, !.limit = limit]
  /\ UNCHANGED <<rc, sw, rs, pull, weights, calc, now, db, redis, ttl, queue, wk, feed>>

\* redis.exists(diversityKey) (line 217)
GetTopExists ==
  /\ rd.pc = "exists"
  /\ rd' = [rd EXCEPT !.pc = IF exists(redis[DiversityKey(rd.segment)]) THEN "zrange"
                               ELSE "zrevrange"]
  /\ UNCHANGED <<rc, sw, rs, pull, weights, calc, now, db, redis, ttl, queue, wk, feed>>

\* GetTopZrange reading the diversity set highest position first
GetTopZrange_rev ==
  LET marketIds == zrevrange(redis[DiversityKey(rd.segment)], 0, rd.limit - 1)
  IN /\ rd.pc = "zrange"
     /\ rd' = IF Len(marketIds) > 0
              THEN [rd EXCEPT !.pc = "done", !.result = marketIds, !.outcome = "returned",
                              !.tier = "diversity"]
              ELSE [rd EXCEPT !.pc = "zrevrange"]
     /\ UNCHANGED <<rc, sw, rs, pull, weights, calc, now, db, redis, ttl, queue, wk, feed>>

\* redis.zrange(diversityKey, 0, limit - 1); returned when non-empty (lines 220-223)
GetTopZrange ==
  LET marketIds == zrange(redis[DiversityKey(rd.segment)], 0, rd.limit - 1)
  IN /\ rd.pc = "zrange"
     /\ rd' = IF Len(marketIds) > 0
              THEN [rd EXCEPT !.pc = "done", !.result = marketIds, !.outcome = "returned",
                              !.tier = "diversity"]
              ELSE [rd EXCEPT !.pc = "zrevrange"]
     /\ UNCHANGED <<rc, sw, rs, pull, weights, calc, now, db, redis, ttl, queue, wk, feed>>

\* redis.zrevrange(topKey, 0, limit - 1), returned as is (lines 227-230)
GetTopZrevrange ==
  LET marketIds == zrevrange(redis[TopKey(rd.segment)], 0, rd.limit - 1)
      during == Rebuilding(rd.segment)
      w == CHOOSE x \in during : TRUE
  IN /\ rd.pc = "zrevrange"
     /\ rd' = [rd EXCEPT !.pc = "done", !.result = marketIds, !.outcome = "returned",
                         !.tier = "top",
                         !.cands = IF Cardinality(during) = 1
                                   THEN {zrevrange(wk[w].pre, 0, rd.limit - 1),
                                         zrevrange(RebuildTarget(w), 0, rd.limit - 1)}
                                   ELSE {}]
     /\ UNCHANGED <<rc, sw, rs, pull, weights, calc, now, db, redis, ttl, queue, wk, feed>>

\* GetTopThrows with the catch rethrowing
GetTopThrows_rethrow ==
  /\ rd.pc \in {"exists", "zrange", "zrevrange"}
  /\ rd' = [rd EXCEPT !.pc = "done", !.result = << >>, !.outcome = "threw", !.errAt = rd.pc]
  /\ UNCHANGED <<rc, sw, rs, pull, weights, calc, now, db, redis, ttl, queue, wk, feed>>

\* GetTopThrows with a failed diversity read falling through to the top-K read
GetTopThrows_fallthrough ==
  /\ rd.pc \in {"exists", "zrange", "zrevrange"}
  /\ rd' = IF rd.pc = "zrevrange"
           THEN [rd EXCEPT !.pc = "done", !.result = << >>, !.outcome = "returned",
                           !.errAt = rd.pc]
           ELSE [rd EXCEPT !.pc = "zrevrange", !.errAt = rd.pc]
  /\ UNCHANGED <<rc, sw, rs, pull, weights, calc, now, db, redis, ttl, queue, wk, feed>>

\* the Redis call the read is standing at rejects: catch, log, return [] (lines 231-234)
GetTopThrows ==
  /\ rd.pc \in {"exists", "zrange", "zrevrange"}
  /\ rd' = [rd EXCEPT !.pc = "done", !.result = << >>, !.outcome = "returned", !.errAt = rd.pc]
  /\ UNCHANGED <<rc, sw, rs, pull, weights, calc, now, db, redis, ttl, queue, wk, feed>>

\* --------------------------------------------------------- getNextMarkets
\* A cursor is a string; its characters are the ISO text of an instant (one token per
\* instant: toISOString and the TIMESTAMP(3) column both keep milliseconds), a comma,
\* the text of an id, or anything else.
DateTok(t) == [k |-> "date", v |-> t]
IdTok(i) == [k |-> "id", v |-> i]
Comma == [k |-> "comma", v |-> 0]
Junk == [k |-> "junk", v |-> 0]
InvalidDate == 0 - 1

\* `${lastMarket.updatedAt.toISOString()},${lastMarket.id}` (line 270)
FormatCursor(updatedAt, id) == <<DateTok(updatedAt), Comma, IdTok(id)>>

\* String.prototype.split(',')
RECURSIVE Split(_)
Split(str) ==
  IF \A k \in 1..Len(str) : str[k] # Comma THEN <<str>>
  ELSE LET c == CHOOSE k \in 1..Len(str) : str[k] = Comma /\ \A j \in 1..(k - 1) : str[j] # Comma
       IN <<SubSeq(str, 1, c - 1)>> \o Split(SubSeq(str, c + 1, Len(str)))

\* new Date(dateStr)
ParseDate(dateStr) ==
  IF Len(dateStr) = 1 /\ dateStr[1].k = "date" THEN dateStr[1].v ELSE InvalidDate

\* the parsed cursor (lines 221-232) and whether it applies (line 243):
\* an absent or empty cursor, or one without a non-empty second part, is not used
ParseCursor(cursor) ==
  IF cursor = << >> THEN [used |-> FALSE, cursorDate |-> InvalidDate, cursorId |-> << >>]
  ELSE LET parts == Split(cursor)
           id == IF Len(parts) >= 2 THEN parts[2] ELSE << >>
       IN [used |-> id # << >>, cursorDate |-> ParseDate(parts[1]), cursorId |-> id]

\* text order of ids: `id < cursorId` of the where clause
IdLess(i, cursorId) == Len(cursorId) = 1 /\ cursorId[1].k = "id" /\ i < cursorId[1].v

\* FeedWhere serving only the members of the top-K set
FeedWhere_cached(d, t, tags, c) ==
  {i \in DOMAIN redis[TopKey("default")] :
     /\ d[i].present
     /\ d[i].endDate > t
     /\ (tags # {} => Range(d[i].tags) \cap tags # {})
     /\ (c.used => \/ d[i].updatedAt < c.cursorDate
                   \/ (d[i].updatedAt = c.cursorDate /\ IdLess(i, c.cursorId)))}

\* the where clause (lines 235-251)
FeedWhere(d, t, tags, c) ==
  {i \in Ids :
     /\ d[i].present
     /\ d[i].endDate > t
     /\ (tags # {} => Range(d[i].tags) \cap tags # {})
     /\ (c.used => \/ d[i].updatedAt < c.cursorDate
                   \/ (d[i].updatedAt = c.cursorDate /\ IdLess(i, c.cursorId)))}

\* OrderedBefore without the id tie-break
OrderedBefore_noId(d, a, b) == d[a].updatedAt > d[b].updatedAt

\* orderBy [{ updatedAt: 'desc' }, { id: 'desc' }]: a comes before b (lines 256-259)
OrderedBefore(d, a, b) ==
  \/ d[a].updatedAt > d[b].updatedAt
  \/ (d[a].updatedAt = d[b].updatedAt /\ a > b)

\* the orders of the rows S the orderBy allows
RECURSIVE FeedOrders(_, _)
FeedOrders(d, S) ==
  IF S = {} THEN {<< >>}
  ELSE UNION {{<<x>> \o p : p \in FeedOrders(d, S \ {x})} :
                x \in {y \in S : \A z \in S : ~OrderedBefore(d, z, y)}}

\* the results findMany may give: the matching rows in an order the orderBy allows, cut to `take`
FindManyFeed(d, t, tags, c, take) ==
  {Take(p, take) : p \in FeedOrders(d, FeedWhere(d, t, tags, c))}

\* FeedResponse with hasMore computed as `markets.length >= limit`
FeedResponse_ge(d, markets, limit) ==
  LET hasMore == Len(markets) >= limit
      resultMarkets == IF hasMore THEN Take(markets, limit) ELSE markets
      lastMarket == resultMarkets[Len(resultMarkets)]
  IN [items |-> resultMarkets,
      hasMore |-> hasMore,
      nextCursor |-> IF hasMore /\ Len(resultMarkets) > 0
                     THEN FormatCursor(d[lastMarket].updatedAt, lastMarket) ELSE << >>]

\* hasMore, the page and the next cursor (lines 263-282)
FeedResponse(d, markets, limit) ==
  LET hasMore == Len(markets) > limit
      resultMarkets == IF hasMore THEN Take(markets, limit) ELSE markets
      lastMarket == resultMarkets[Len(resultMarkets)]
  IN [items |-> resultMarkets,
      hasMore |-> hasMore,
      nextCursor |-> IF hasMore /\ Len(resultMarkets) > 0
                     THEN FormatCursor(d[lastMarket].updatedAt, lastMarket) ELSE << >>]

\* the ranked order of a segment as a reader of the sorted sets finds it
RankedOrder(segment) ==
  IF exists(redis[DiversityKey(segment)])
  THEN zrange(redis[DiversityKey(segment)], 0, 0 - 1)
  ELSE zrevrange(redis[TopKey(segment)], 0, 0 - 1)

HasRankedSet(segment) ==
  exists(redis[DiversityKey(segment)]) \/ exists(redis[TopKey(segment)])

\* FeedService.getNextMarkets (lines 209-287).  The record `feed` keeps the call and,
\* beside it, what the claims need to know about it: whether it repeats the previous
\* request, and the pages gathered since the last call without a cursor (the run).
getNextMarkets(cursor, limit, tags) ==
  LET c == ParseCursor(cursor)
      isRepeat == /\ feed.outcome = "returned" /\ feed.fresh
                  /\ cursor = feed.cursor /\ limit = feed.limit /\ tags = feed.tags
      isNext == /\ feed.outcome = "returned" /\ feed.run = "open" /\ ~isRepeat
                /\ cursor = feed.nextCursor /\ limit = feed.limit /\ tags = feed.tags
  IN /\ ~(c.used /\ c.cursorDate = InvalidDate)
     /\ \E markets \in FindManyFeed(db, now, tags, c, limit + 1) :
          LET r == FeedResponse(db, markets, limit)
          IN feed' =
               IF isRepeat
               THEN [feed EXCEPT !.repeated = TRUE, !.again = r.items]
               ELSE [outcome |-> "returned", cursor |-> cursor, limit |-> limit, tags |-> tags,
                     items |-> r.items, nextCursor |-> r.nextCursor, hasMore |-> r.hasMore,
                     hadRanked |-> HasRankedSet("default"),
                     rankedPage |-> Take(RankedOrder("default"), limit),
                     run |-> IF cursor = << >> \/ isNext
                             THEN (IF r.hasMore THEN "open" ELSE "done")
                             ELSE "none",
                     acc |-> IF isNext THEN feed.acc \o r.items
                             ELSE IF cursor = << >> THEN r.items ELSE << >>,
                     repeated |-> FALSE, again |-> << >>,
                     fresh |-> IF isNext THEN feed.fresh ELSE TRUE]
     /\ UNCHANGED <<rc, sw, rs, pull, weights, calc, now, db, redis, ttl, queue, wk, rd>>

\* findMany rejects (the store is down, or the cursor's date is not a date):
\* catch, log, rethrow (lines 283-286)
getNextMarketsThrows(cursor, limit, tags) ==
  /\ feed' = [NoFeed EXCEPT !.outcome = "threw", !.cursor = cursor, !.limit = limit,
                            !.tags = tags]
  /\ UNCHANGED <<rc, sw, rs, pull, weights, calc, now, db, redis, ttl, queue, wk, rd>>

\* --------------------------------------------------------- specifications

Ingest == \E i \in 1..MaxItems :
            storeMarket(i, RawMarket(i).lastChange24h, RawMarket(i).endDate, RawMarket(i).tags)
IngestPages == \E i \in 1..MaxPageItems :
                 storeMarket(i, RawMarket(i).lastChange24h, RawMarket(i).endDate, RawMarket(i).tags)
Trigger == \E s \in Segments : triggerRankingRebuild(s, FALSE)
AddDiversity == \E s \in Segments : addDiversityJob(s)
Expire == \E k \in Keys : KeyExpires(k)
StartScore(W) == \E w \in W, j \in Jobs : handleScore(w, j)
StartDiversity(W) == \E w \in W, j \in Jobs : handleDiversity(w, j)
Settle(W) == \E w \in W : JobSettles(w)
Rebuild(W) == \E w \in W :
                \/ RebuildFindMany(w)
                \/ RebuildPersist(w)
                \/ RebuildDel(w)
                \/ RebuildZadd(w)
                \/ RebuildExpire(w)
RebuildFails(W) == \E w \in W : RebuildThrows(w)
Diversity(W) == \E w \in W :
                  \/ DiversityZrevrange(w)
                  \/ DiversityFindMany(w)
                  \/ DiversityDel(w)
                  \/ DiversityZadd(w)
                  \/ DiversityExpire(w)
DiversityFails(W) == \E w \in W : DiversityThrows(w)
Read ==
  \/ \E s \in Segments, l \in 1..MaxLimit : getTopMarkets(s, l)
  \/ GetTopExists
  \/ GetTopZrange
  \/ GetTopZrevrange
ReadFails == GetTopThrows

\* the 'ranking' queue with every slot: triggers, 'score' jobs, failures
NextQueue ==
  \/ Ingest
  \/ Trigger
  \/ Expire
  \/ Settle(1..Workers)
  \/ StartScore(1..Workers)
  \/ Rebuild(1..Workers)
  \/ RebuildFails(1..Workers)

SpecQueue == Init /\ [][NextQueue]_vars

\* one rebuild at a time against concurrent reads
NextRebuild ==
  \/ Ingest
  \/ Trigger
  \/ AddDiversity
  \/ Expire
  \/ Settle({1})
  \/ StartScore({1})
  \/ StartDiversity({1})
  \/ Rebuild({1})
  \/ Diversity({1})
  \/ RebuildFails({1})
  \/ Read

SpecRebuild == Init /\ [][NextRebuild]_vars

\* reads against both sorted sets, with failing Redis calls
NextRead ==
  \/ Ingest
  \/ Trigger
  \/ AddDiversity
  \/ Expire
  \/ Settle({1})
  \/ StartScore({1})
  \/ StartDiversity({1})
  \/ Rebuild({1})
  \/ Diversity({1})
  \/ Read
  \/ ReadFails

SpecRead == Init /\ [][NextRead]_vars

\* cursors a client may send: none, the one the last page handed out, the one it sent
\* last, a date alone, junk
CursorInputs ==
  {<< >>, feed.nextCursor, feed.cursor, <<Junk>>, <<Junk, Comma, IdTok(1)>>, <<DateTok(0)>>}
TagFilters == {{}, {"politics"}}

FeedFirst == \E l \in 1..MaxLimit : getNextMarkets(<< >>, l, {})
FeedCall == \E c \in CursorInputs, l \in 1..MaxLimit, tags \in TagFilters :
              getNextMarkets(c, l, tags)
FeedFails == \E c \in {<< >>, <<Junk, Comma, IdTok(1)>>} : getNextMarketsThrows(c, 1, {})

\* the feed endpoint beside the rebuilds of the top-K set: the sorted sets are absent
\* before the first rebuild and between a rebuild's del and its first zadd
NextFeed ==
  \/ Ingest
  \/ Tick
  \/ Trigger
  \/ Settle({1})
  \/ StartScore({1})
  \/ Rebuild({1})
  \/ FeedFirst

SpecFeed == Init /\ [][NextFeed]_vars

\* the feed endpoint paged over a changing item store
NextPages ==
  \/ IngestPages
  \/ Tick
  \/ FeedCall
  \/ FeedFails

SpecPages == Init /\ [][NextPages]_vars

\* confidences of the scored markets where the cut is examined: 0, 0.5 and 1
Confidences == {0, 500000, 1000000}

\* the lists scoredMarkets may be: markets with distinct ids, in any order, with any scores
ScoredInputs ==
  UNION {UNION {{[k \in 1..Len(p) |-> [id |-> p[k], confidence |-> c[p[k]]]] :
                   c \in [S -> Confidences]} : p \in Perms(S)} :
           S \in SUBSET (1..MaxScored)}

\* lines 108-120 of rebuildRankings on an empty key: sort, slice(0, topK), one zadd each
publishTopK(scored, topK) ==
  /\ calc = NoCalc
  /\ calc' = [op |-> "slice", scored |-> scored, topK |-> topK,
               z |-> ZOfMarkets(SliceTop(scored, topK))]
  /\ UNCHANGED <<rc, sw, rs, pull, weights, now, db, redis, ttl, queue, wk, rd, feed>>

PublishTopK == \E scored \in ScoredInputs, topK \in (1..MaxCut) \cup {TopK} :
                 publishTopK(scored, topK)

\* the top-K cut by itself, over every scored list and cut
NextSlice ==
  \/ PublishTopK
  \/ CalcReturns

SpecSlice == Init /\ [][NextSlice]_vars

SampleWalk == \E tags \in SampleTagLists : SampleNext(tags)

\* the sampling loop by itself, over every sequence of tag lists
NextSample ==
  \/ SampleStart
  \/ SampleWalk
  \/ CalcReturns

SpecSample == Init /\ [][NextSample]_vars

\* ------------------------------------------------------ IngestionProcessor
PullPcs == {"fetch", "store", "decide"}

\* results.new > 0 || results.updated > 0 || force
ShouldTrigger_newOnly(results, force) == results.new > 0

ShouldTrigger(results, force) == results.new > 0 \/ results.updated > 0 \/ force

\* the loop of fetchAndStoreMarkets goes to the next connector, or returns results
NextConnector(p) ==
  IF p.c < NumConnectors
  THEN [p EXCEPT !.pc = "fetch", !.c = p.c + 1, !.raw = << >>]
  ELSE [p EXCEPT !.pc = "decide", !.raw = << >>]

\* handlePull starts on a 'pull' job: results are zero, the loop is at the first connector
handlePull(force) ==
  /\ pull.pc = "idle"
  /\ pull' = [IdlePull EXCEPT !.pc = "fetch", !.force = force, !.c = 1]
  /\ UNCHANGED <<rc, sw, rs, weights, calc, now, db, redis, ttl, queue, wk, rd, feed>>

\* connector.fetchMarkets resolves
PullFetchMarkets ==
  /\ pull.pc = "fetch"
  /\ \E rawMarkets \in FetchedLists(pull.c) :
        pull' = [pull EXCEPT !.pc = "store", !.raw = rawMarkets]
  /\ UNCHANGED <<rc, sw, rs, weights, calc, now, db, redis, ttl, queue, wk, rd, feed>>

\* connector.fetchMarkets rejects with an Error: the connector's catch records it
\* (updateConnectorHealth swallows its own errors) and the loop goes on
PullFetchThrows ==
  /\ pull.pc = "fetch"
  /\ pull' = NextConnector([pull EXCEPT !.errors = @ + 1])
  /\ UNCHANGED <<rc, sw, rs, weights, calc, now, db, redis, ttl, queue, wk, rd, feed>>

\* fetchAndStoreMarkets itself rejects (the connector's catch reads error.message of a
\* rejection value that has none): handlePull logs and rethrows
PullFetchRejects ==
  /\ pull.pc = "fetch"
  /\ pull' = [pull EXCEPT !.pc = "failed"]
  /\ UNCHANGED <<rc, sw, rs, weights, calc, now, db, redis, ttl, queue, wk, rd, feed>>

\* normalize and storeMarket of the next raw market: results.total++, then new++ or updated++
PullStoreMarket ==
  /\ pull.pc = "store"
  /\ pull.raw # << >>
  /\ LET i == Head(pull.raw)
         m == RawMarket(i)
     IN /\ db' = StoredMarket(db, i, m.lastChange24h, m.endDate, m.tags, now)
        /\ pull' = IF db[i].present
                   THEN [pull EXCEPT !.raw = Tail(@), !.updated = @ + 1]
                   ELSE [pull EXCEPT !.raw = Tail(@), !.new = @ + 1]
  /\ feed' = FeedTouched
  /\ UNCHANGED <<rc, sw, rs, weights, calc, now, redis, ttl, queue, wk, rd>>

\* normalize or storeMarket throws: the error is recorded and the loop goes on
PullStoreThrows ==
  /\ pull.pc = "store"
  /\ pull.raw # << >>
  /\ pull' = [pull EXCEPT !.raw = Tail(@), !.errors = @ + 1]
  /\ UNCHANGED <<rc, sw, rs, weights, calc, now, db, redis, ttl, queue, wk, rd, feed>>

\* every raw market of the connector was handled: updateConnectorHealth, next connector
PullConnectorDone ==
  /\ pull.pc = "store"
  /\ pull.raw = << >>
  /\ pull' = NextConnector(pull)
  /\ UNCHANGED <<rc, sw, rs, weights, calc, now, db, redis, ttl, queue, wk, rd, feed>>

\* handlePull after fetchAndStoreMarkets returned: triggerRankingRebuild() or nothing
PullDecide ==
  LET job == ScoreJob("default", FALSE)
  IN /\ pull.pc = "decide"
     /\ IF ShouldTrigger(pull, pull.force)
        THEN /\ QueueLen < MaxQueue
             /\ queue' = [queue EXCEPT ![job] = @ + 1]
        ELSE queue' = queue
     /\ pull' = [pull EXCEPT !.pc = "completed"]
     /\ UNCHANGED <<rc, sw, rs, weights, calc, now, db, redis, ttl, wk, rd, feed>>

\* the 'ingestion' queue records the job as completed or failed
PullSettles ==
  /\ pull.pc \in {"completed", "failed"}
  /\ pull' = IdlePull
  /\ UNCHANGED <<rc, sw, rs, weights, calc, now, db, redis, ttl, queue, wk, rd, feed>>

\* ------------------------------------------------------------ SwipesService
\* generateSwipeToken: redis.set(`swipe_token:${token}`, userId, 300)
generateSwipeToken(t) ==
  /\ sw.tokens[t] = "none"
  /\ sw' = [sw EXCEPT !.tokens[t] = "issued"]
  /\ UNCHANGED rs
  /\ UNCHANGED <<rc, pull, weights, calc, now, db, redis, ttl, queue, wk, rd, feed>>

\* Redis drops a swipe_token key whose expiry has passed
TokenExpires(t) ==
  /\ sw.tokens[t] \in {"issued", "used"}
  /\ sw' = [sw EXCEPT !.tokens[t] = "gone"]
  /\ UNCHANGED rs
  /\ UNCHANGED <<rc, pull, weights, calc, now, db, redis, ttl, queue, wk, rd, feed>>

\* recordSwipe is called with a market and, when token > 0, a swipe token that was issued
recordSwipe(c, marketId, token) ==
  /\ rs[c].pc = "idle"
  /\ token > 0 => sw.tokens[token] # "none"
  /\ rs' = [rs EXCEPT ![c] = [IdleCall EXCEPT !.pc = "market", !.marketId = marketId,
                                              !.token = token,
                                              !.first = (token > 0 /\ ~sw.presented[token])]]
  /\ sw' = IF token > 0 THEN [sw EXCEPT !.presented[token] = TRUE] ELSE sw
  /\ UNCHANGED <<rc, pull, weights, calc, now, db, redis, ttl, queue, wk, rd, feed>>

\* marketItem.findUnique, 'Market not found', 'Market has ended' (lines 147-158)
SwipeFindMarket(c) ==
  /\ rs[c].pc = "market"
  /\ rs' = [rs EXCEPT ![c] =
              IF ~db[rs[c].marketId].present \/ db[rs[c].marketId].endDate <= now
              THEN [@ EXCEPT !.pc = "done", !.outcome = "badRequest"]
              ELSE [@ EXCEPT !.pc = "existing"]]
  /\ UNCHANGED sw
  /\ UNCHANGED <<rc, pull, weights, calc, now, db, redis, ttl, queue, wk, rd, feed>>

\* swipe.findUnique: an existing swipe is answered with success and xpGained 0 (161-180)
SwipeFindExisting(c) ==
  /\ rs[c].pc = "existing"
  /\ rs' = [rs EXCEPT ![c] =
              IF rs[c].marketId \in sw.rows
              THEN [@ EXCEPT !.pc = "done", !.outcome = "success", !.xpGained = 0]
              ELSE [@ EXCEPT !.pc = IF rs[c].token > 0 THEN "tokenGet" ELSE "transaction"]]
  /\ UNCHANGED sw
  /\ UNCHANGED <<rc, pull, weights, calc, now, db, redis, ttl, queue, wk, rd, feed>>

\* redis.get(tokenKey): a value under the key is 'Swipe token already used' (183-190)
SwipeTokenGet(c) ==
  /\ rs[c].pc = "tokenGet"
  /\ rs' = [rs EXCEPT ![c] =
              IF sw.tokens[rs[c].token] \in {"issued", "used"}
              THEN [@ EXCEPT !.pc = "done", !.outcome = "conflict",
                             !.seen = sw.tokens[rs[c].token]]
              ELSE [@ EXCEPT !.pc = "tokenSet", !.seen = sw.tokens[rs[c].token]]]
  /\ UNCHANGED sw
  /\ UNCHANGED <<rc, pull, weights, calc, now, db, redis, ttl, queue, wk, rd, feed>>

\* redis.set(tokenKey, userId, 3600) (line 192)
SwipeTokenSet(c) ==
  /\ rs[c].pc = "tokenSet"
  /\ sw' = [sw EXCEPT !.tokens[rs[c].token] = "used"]
  /\ rs' = [rs EXCEPT ![c].pc = "transaction"]
  /\ UNCHANGED <<rc, pull, weights, calc, now, db, redis, ttl, queue, wk, rd, feed>>

\* $transaction(swipe.create, updateUserStats), then the response (196-226); swipe.create on
\* a (user, market) that has a row violates the unique index: the transaction is rolled
\* back and recordSwipe logs and rethrows (227-230)
SwipeTransaction(c) ==
  /\ rs[c].pc = "transaction"
  /\ IF rs[c].marketId \in sw.rows
     THEN /\ rs' = [rs EXCEPT ![c] = [@ EXCEPT !.pc = "done", !.outcome = "error"]]
          /\ UNCHANGED sw
     ELSE LET newCurrentStreak == sw.currentStreak + 1
          IN /\ sw' = [sw EXCEPT !.rows = @ \cup {rs[c].marketId},
                                 !.totalSwipes = @ + 1,
                                 !.currentStreak = newCurrentStreak,
                                 !.xp = @ + calculateXPGain(newCurrentStreak)]
             /\ rs' = [rs EXCEPT ![c] = [@ EXCEPT !.pc = "done", !.outcome = "success",
                                                  !.created = TRUE,
                                                  !.xpGained = calculateXPGain(newCurrentStreak)]]
  /\ UNCHANGED <<rc, pull, weights, calc, now, db, redis, ttl, queue, wk, rd, feed>>

\* the caller has its response
SwipeReturns(c) ==
  /\ rs[c].pc = "done"
  /\ rs' = [rs EXCEPT ![c] = IdleCall]
  /\ UNCHANGED sw
  /\ UNCHANGED <<rc, pull, weights, calc, now, db, redis, ttl, queue, wk, rd, feed>>

\* ------------------------------------------------------- getRankingStats
\* zcard of both sorted sets and the count of open eligible markets (lines 257-274)
getRankingStats(segment) ==
  /\ calc = NoCalc
  /\ calc' = [op |-> "stats", segment |-> segment,
              topMarkets |-> Cardinality(DOMAIN redis[TopKey(segment)]),
              diversityMarkets |-> Cardinality(DOMAIN redis[DiversityKey(segment)]),
              totalMarkets |-> Cardinality(RebuildEligible(db, now))]
  /\ UNCHANGED <<rc, sw, rs, pull, weights, now, db, redis, ttl, queue, wk, rd, feed>>

\* ------------------------------------------- FeedService.recalculateRankings
\* findMany({ endDate > now }) (lines 474-476): the rows as they are now, in any order
recalculateRankings ==
  /\ rc.pc = "idle"
  /\ \E order \in Perms({i \in Ids : db[i].present /\ db[i].endDate > now}) :
        rc' = [pc |-> "loop", i |-> 1,
               markets |-> [k \in 1..Len(order) |-> [id |-> order[k], row |-> db[order[k]]]]]
  /\ UNCHANGED <<sw, rs, pull, weights, calc, now, db, redis, ttl, queue, wk, rd, feed>>

\* one turn of the loop (479-499): calculateRanking on the row that was read, and an update
\* of confidence and trendScore when either differs from the row that was read; rows keep
\* trendScore in thousandths
RecalcMarket ==
  /\ rc.pc = "loop"
  /\ rc.i <= Len(rc.markets)
  /\ LET market == rc.markets[rc.i]
         ranking == calculateRanking(MarketData(market.row), now, weights)
     IN IF ranking.confidence # market.row.confidence
           \/ ranking.trendScore # market.row.trendScore * 1000
        THEN \E touch \in BOOLEAN :
               db' = [db EXCEPT ![market.id] =
                        [@ EXCEPT !.confidence = ranking.confidence,
                                  !.trendScore = ranking.trendScore \div 1000,
                                  !.updatedAt = IF touch THEN now ELSE @]]
        ELSE db' = db
  /\ rc' = [rc EXCEPT !.i = @ + 1]
  /\ feed' = FeedTouched
  /\ UNCHANGED <<sw, rs, pull, weights, calc, now, redis, ttl, queue, wk, rd>>

\* the loop is over: recalculateRankings returns { processed, updated }
RecalcReturns ==
  /\ rc.pc = "loop"
  /\ rc.i > Len(rc.markets)
  /\ rc' = IdleRecalc
  /\ UNCHANGED <<sw, rs, pull, weights, calc, now, db, redis, ttl, queue, wk, rd, feed>>

\* ------------------------------------------- PrismaService.executeTransaction
\* executeTransaction(fn, maxRetries): the loop starts at attempt 1; with no attempt
\* allowed the loop body never runs and lastError is thrown
executeTransaction(maxRetries) ==
  /\ calc = NoCalc
  /\ calc' = [op |-> "tx", maxRetries |-> maxRetries, attempt |-> 1, log |-> << >>,
              state |-> IF 1 <= maxRetries THEN "try" ELSE "thrown", result |-> 0]
  /\ UNCHANGED <<rc, sw, rs, pull, weights, now, db, redis, ttl, queue, wk, rd, feed>>

\* one attempt: $transaction(fn) resolves and its result is returned, or it rejects and the
\* error is retried (after the delay) or rethrown; the result of attempt n is modelled as n
TxAttempt(outcome) ==
  /\ calc.op = "tx"
  /\ calc.state = "try"
  /\ calc' =
       IF outcome = "ok"
       THEN [calc EXCEPT !.log = Append(@, outcome), !.state = "returned",
                         !.result = calc.attempt]
       ELSE IF Retryable(outcome) /\ calc.attempt < calc.maxRetries
            THEN [calc EXCEPT !.log = Append(@, outcome), !.attempt = @ + 1]
            ELSE [calc EXCEPT !.log = Append(@, outcome), !.state = "thrown"]
  /\ UNCHANGED <<rc, sw, rs, pull, weights, now, db, redis, ttl, queue, wk, rd, feed>>

\* ------------------------------------------------------ RankingAlgoService
\* the constructor: each weight is config.get(key, default)
constructor(config) ==
  /\ weights' = [k \in WeightKeys |-> Coalesce(config[k], DefaultWeights[k])]
  /\ UNCHANGED <<rc, sw, rs, pull, calc, now, db, redis, ttl, queue, wk, rd, feed>>

\* updateWeights: each weight is newWeights.wi ?? this.weights.wi
updateWeights(newWeights) ==
  /\ weights' = [k \in WeightKeys |-> Coalesce(newWeights[k], weights[k])]
  /\ UNCHANGED <<rc, sw, rs, pull, calc, now, db, redis, ttl, queue, wk, rd, feed>>

WeightConfigs == [WeightKeys -> WeightInputs]

Construct == \E config \in WeightConfigs : constructor(config)
UpdateWeights == \E newWeights \in WeightConfigs : updateWeights(newWeights)

\* the weight set by itself, over every configuration and every partial update
NextWeights ==
  \/ Construct
  \/ UpdateWeights

SpecWeights == Init /\ [][NextWeights]_vars

StartPull == \E force \in BOOLEAN : handlePull(force)
Pull ==
  \/ PullFetchMarkets
  \/ PullFetchThrows
  \/ PullFetchRejects
  \/ PullStoreMarket
  \/ PullStoreThrows
  \/ PullConnectorDone
  \/ PullDecide
  \/ PullSettles

\* ingestion cycles against one worker that runs the rebuilds they enqueue
NextIngest ==
  \/ StartPull
  \/ Pull
  \/ Settle({1})
  \/ StartScore({1})
  \/ Rebuild({1})

SpecIngest == Init /\ [][NextIngest]_vars

TriggerAny == \E s \in Segments, force \in BOOLEAN : triggerRankingRebuild(s, force)

\* triggers with either force flag against one worker that runs the rebuilds
NextTrigger ==
  \/ Ingest
  \/ TriggerAny
  \/ Settle({1})
  \/ StartScore({1})
  \/ Rebuild({1})

SpecTrigger == Init /\ [][NextTrigger]_vars

\* the first market is stored
IngestFirst ==
  storeMarket(1, RawMarket(1).lastChange24h, RawMarket(1).endDate, RawMarket(1).tags)

\* the stores fail only before the last instant of the model's clock
Outage == now < MaxNow /\ RebuildFails({1})

\* rebuilds that can fail while the stores are out, on a queue that is served fairly
NextRecover ==
  \/ IngestFirst
  \/ Tick
  \/ Trigger
  \/ Settle({1})
  \/ StartScore({1})
  \/ Rebuild({1})
  \/ Outage

SpecRecover ==
  /\ Init
  /\ [][NextRecover]_vars
  /\ WF_vars(Settle({1}))
  /\ WF_vars(StartScore({1}))
  /\ WF_vars(Rebuild({1}))

\* ------------------------------------------------------ scoring by itself
\* items handed to calculateScore
ScoreInputs ==
  [volume : {0, 999999}, lastChange24h : {Null, 10}, endDate : 0..3,
   liquidity : {Null, 50000}, trendScore : {0, 1000}]

\* items handed to calculateRanking
RankingInputs ==
  [liquidity : {Null, 999999}, volume24h : {0, 999}, priceChange24 : {Null, 0 - 30},
   mentionScore : {0 - 100, 50}, endDate : 0..3]

\* calls are examined two at a time
CanCall == calc = NoCalc \/ (calc.op = "score" /\ Len(calc.calls) < 2)
CallsSoFar == IF calc = NoCalc THEN << >> ELSE calc.calls

\* one call of calculateScore, reading Date.now()
CallCalculateScore(market) ==
  /\ CanCall
  /\ calc' = [op |-> "score",
              calls |-> Append(CallsSoFar,
                               [fn |-> "calculateScore", market |-> market, t |-> now,
                                confidence |-> calculateScore(market, now),
                                trendScore |-> 0])]
  /\ UNCHANGED <<rc, sw, rs, pull, weights, now, db, redis, ttl, queue, wk, rd, feed>>

\* one call of calculateRanking, reading new Date() and this.weights
CallCalculateRanking(market) ==
  /\ CanCall
  /\ LET r == calculateRanking(market, now, weights)
     IN calc' = [op |-> "score",
                 calls |-> Append(CallsSoFar,
                                  [fn |-> "calculateRanking", market |-> market, t |-> now,
                                   confidence |-> r.confidence,
                                   trendScore |-> r.trendScore])]
  /\ UNCHANGED <<rc, sw, rs, pull, weights, now, db, redis, ttl, queue, wk, rd, feed>>

ScoreCall == \E market \in ScoreInputs : CallCalculateScore(market)
RankingCall == \E market \in RankingInputs : CallCalculateRanking(market)

\* both scoring functions over every input, with the clock running between calls
NextScore ==
  \/ ScoreCall
  \/ RankingCall
  \/ Tick
  \/ CalcReturns

SpecScore == Init /\ [][NextScore]_vars

IssueToken == \E t \in 1..MaxTokens : generateSwipeToken(t)
ExpireToken == \E t \in 1..MaxTokens : TokenExpires(t)
StartSwipe == \E c \in 1..Callers, token \in 0..MaxTokens : recordSwipe(c, 1, token)
Swipe == \E c \in 1..Callers :
           \/ SwipeFindMarket(c)
           \/ SwipeFindExisting(c)
           \/ SwipeTokenGet(c)
           \/ SwipeTokenSet(c)
           \/ SwipeTransaction(c)
           \/ SwipeReturns(c)

\* concurrent recordSwipe calls of one user on the first market, with swipe tokens
NextSwipe ==
  \/ IngestFirst
  \/ Tick
  \/ IssueToken
  \/ ExpireToken
  \/ StartSwipe
  \/ Swipe

SpecSwipe == Init /\ [][NextSwipe]_vars

TriggerAll == \E s \in AllSegments : triggerRankingRebuild(s, FALSE)
AddDiversityAll == \E s \in AllSegments : addDiversityJob(s)
ReadAll ==
  \/ \E s \in AllSegments : getTopMarkets(s, 1)
  \/ GetTopExists
  \/ GetTopZrange
  \/ GetTopZrevrange
Stats == \E s \in AllSegments : getRankingStats(s)

\* rebuilds, samplings and reads of two segments side by side
NextFrame ==
  \/ IngestFirst
  \/ TriggerAll
  \/ AddDiversityAll
  \/ Settle({1})
  \/ StartScore({1})
  \/ StartDiversity({1})
  \/ Rebuild({1})
  \/ Diversity({1})
  \/ ReadAll
  \/ Stats
  \/ CalcReturns

SpecFrame == Init /\ [][NextFrame]_vars

Recalc ==
  \/ recalculateRankings
  \/ RecalcMarket
  \/ RecalcReturns

\* the two score writers against each other
NextRecalc ==
  \/ IngestFirst
  \/ Tick
  \/ Trigger
  \/ Settle({1})
  \/ StartScore({1})
  \/ Rebuild({1})
  \/ Recalc

SpecRecalc == Init /\ [][NextRecalc]_vars

StartTx == \E maxRetries \in 0..DefaultMaxRetries : executeTransaction(maxRetries)
TxRun == \E outcome \in TxOutcomes : TxAttempt(outcome)

\* executeTransaction by itself, over every retry limit and every sequence of outcomes
NextTx ==
  \/ StartTx
  \/ TxRun
  \/ CalcReturns

SpecTx == Init /\ [][NextTx]_vars

Next ==
  \/ NextQueue
  \/ StartTx
  \/ TxRun
  \/ Recalc
  \/ NextFrame
  \/ NextSwipe
  \/ ScoreCall
  \/ RankingCall
  \/ Outage
  \/ TriggerAny
  \/ StartPull
  \/ Pull
  \/ NextWeights
  \/ NextSample
  \/ NextSlice
  \/ NextRead
  \/ RebuildFails(1..Workers)
  \/ StartDiversity(1..Workers)
  \/ Diversity(1..Workers)
  \/ DiversityFails(1..Workers)
  \/ IngestPages
  \/ Tick
  \/ FeedCall
  \/ FeedFails

Spec == Init /\ [][Next]_vars

\* ================================================================ claims
ActiveRebuilds(segment) ==
  {w \in 1..Workers : wk[w].job.name = "score" /\ wk[w].job.segment = segment
                      /\ wk[w].pc \in RebuildPcs}

\* members of z, best first: scores never increase along the sequence
IsDescending(z, ids) == \A a, b \in 1..Len(ids) : a < b => z[ids[a]] >= z[ids[b]]
\* members of z by position: scores strictly increase along the sequence
IsAscending(z, ids) == \A a, b \in 1..Len(ids) : a < b => z[ids[a]] < z[ids[b]]
\* ids are n distinct members of z and no member left out ranks before one of them
IsFirstOf(z, ids, n, desc) ==
  /\ Len(ids) = Min(n, Cardinality(DOMAIN z))
  /\ Range(ids) \subseteq DOMAIN z
  /\ Cardinality(Range(ids)) = Len(ids)
  /\ \A m \in (DOMAIN z) \ Range(ids) : \A k \in 1..Len(ids) :
        IF desc THEN z[m] <= z[ids[k]] ELSE z[m] >= z[ids[k]]

\* C1: a getTopMarkets read of feed:top made while one rebuildRankings of the segment is
\* executing returns the first `limit` members of the list published before the rebuild
\* began or of the fully rebuilt list, never something else.
C1_ReadDuringRebuildSeesWholeList ==
  (rd.pc = "done" /\ rd.tier = "top" /\ rd.errAt = "none" /\ rd.cands # {})
    => rd.result \in rd.cands

\* C2: for every segment at most one rebuildRankings execution is in flight at any time.
C2_OneRebuildInFlight ==
  \A s \in Segments : Cardinality(ActiveRebuilds(s)) <= 1

\* C3: when rebuildRankings fails at any step, feed:top:<segment> is what it was when the
\* rebuild started.
C3_FailedRebuildKeepsPreviousSet ==
  [][\A w \in 1..Workers :
       (wk[w].pc \in RebuildPcs /\ wk'[w].pc = "failed")
         => redis'[TopKey(wk[w].job.segment)] = wk[w].pre]_vars

\* C5: with no Redis error and the sorted sets unchanged during the call, getTopMarkets
\* returns the first `limit` members of feed:diversity by ascending position when that set
\* exists, and otherwise the first `limit` members of feed:top by descending confidence.
C5_TopMarketsTiering ==
  (rd.pc = "done" /\ rd.errAt = "none" /\ ~rd.dirty) =>
    LET div == redis[DiversityKey(rd.segment)]
        top == redis[TopKey(rd.segment)]
    IN IF exists(div)
       THEN IsFirstOf(div, rd.result, rd.limit, FALSE) /\ IsAscending(div, rd.result)
       ELSE IsFirstOf(top, rd.result, rd.limit, TRUE) /\ IsDescending(top, rd.result)

C5_Witness ==
  /\ rd.pc = "done" /\ rd.errAt = "none" /\ ~rd.dirty
  /\ rd.tier = "diversity"
  /\ Len(rd.result) >= 2
  /\ rd.result # zrevrange(redis[TopKey(rd.segment)], 0, rd.limit - 1)

\* C7 as stated: a failed read of the diversity tier (exists or zrange throws) with
\* feed:top readable returns the top-K items.
C7_DiversityErrorServesTopK ==
  (rd.pc = "done" /\ rd.errAt \in {"exists", "zrange"} /\ ~rd.dirty
     /\ exists(redis[TopKey(rd.segment)]))
    => rd.result = zrevrange(redis[TopKey(rd.segment)], 0, rd.limit - 1)

\* C7 amended: a failed read of the diversity tier makes getTopMarkets return an empty
\* list, whatever feed:top holds; feed:top is served only after a diversity read that
\* succeeded and found the set absent.
C7_DiversityErrorReturnsEmpty ==
  /\ (rd.pc = "done" /\ rd.errAt \in {"exists", "zrange"}) => rd.result = << >>
  /\ (rd.pc = "done" /\ rd.tier = "top") => rd.errAt = "none"

C7_Witness ==
  /\ rd.pc = "done" /\ rd.errAt \in {"exists", "zrange"} /\ ~rd.dirty
  /\ Cardinality(DOMAIN redis[TopKey(rd.segment)]) >= 2

\* C8: getTopMarkets never throws; when a Redis call it issues fails it returns [].
C8_GetTopMarketsNeverThrows ==
  /\ rd.outcome # "threw"
  /\ (rd.pc = "done" /\ rd.errAt # "none") => (rd.outcome = "returned" /\ rd.result = << >>)

C8_Witness ==
  /\ rd.pc = "done" /\ rd.errAt = "zrevrange" /\ rd.outcome = "returned"
  /\ exists(redis[TopKey(rd.segment)])

\* the markets a feed request is about: open, and carrying one of the requested tags
Active(tags) ==
  {i \in Ids : db[i].present /\ db[i].endDate > now
               /\ (tags # {} => Range(db[i].tags) \cap tags # {})}

\* most recently updated first, the larger id first among equals
Recency(ids) ==
  \A a, b \in 1..Len(ids) : a < b =>
     \/ db[ids[a]].updatedAt > db[ids[b]].updatedAt
     \/ (db[ids[a]].updatedAt = db[ids[b]].updatedAt /\ ids[a] > ids[b])

\* C4 as stated: whenever a RankedSet exists for the segment, getNextMarkets serves its
\* first page in rank-position order of that set (diversity if present, else top-K).
C4_FeedServesRankedOrder ==
  (feed.outcome = "returned" /\ feed.cursor = << >> /\ feed.tags = {} /\ feed.hadRanked)
    => feed.items = feed.rankedPage

C9_PaginationReconstructs ==
  /\ (feed.run = "done" /\ feed.fresh) =>
        /\ Range(feed.acc) = Active(feed.tags)
        /\ Len(feed.acc) = Cardinality(Active(feed.tags))
        /\ Recency(feed.acc)
  /\ (feed.repeated /\ feed.fresh) => feed.again = feed.items

C9_Witness ==
  /\ feed.run = "done" /\ feed.fresh /\ feed.repeated
  /\ Len(feed.acc) >= 3
  /\ feed.limit = 1
  /\ \E a, b \in Range(feed.acc) : a # b /\ db[a].updatedAt = db[b].updatedAt

\* C10: getNextMarkets returns at most `limit` items; hasMore is true exactly when a
\* matching item follows the page; nextCursor is given exactly when hasMore is true; when
\* nothing matches the page is empty with hasMore false and no nextCursor.
C10_PageShape ==
  (feed.outcome = "returned" /\ feed.fresh) =>
    LET matching == FeedWhere(db, now, feed.tags, ParseCursor(feed.cursor))
    IN /\ Len(feed.items) <= feed.limit
       /\ Range(feed.items) \subseteq matching
       /\ feed.hasMore <=> (matching \ Range(feed.items) # {})
       /\ feed.hasMore <=> (feed.nextCursor # << >>)
       /\ matching = {} => (feed.items = << >> /\ ~feed.hasMore /\ feed.nextCursor = << >>)

C10_Witness ==
  /\ feed.outcome = "returned" /\ feed.fresh
  /\ ParseCursor(feed.cursor).used
  /\ feed.hasMore
  /\ Len(feed.items) = feed.limit

\* a page that ends the listing exactly at `limit` items
C10_WitnessLast ==
  /\ feed.outcome = "returned" /\ feed.fresh
  /\ ~feed.hasMore
  /\ Len(feed.items) = feed.limit

\* a cursor getNextMarkets itself hands out: the text of an instant, a comma, an id
IssuedCursor(cursor) ==
  /\ Len(cursor) = 3
  /\ cursor[1].k = "date" /\ cursor[2] = Comma /\ cursor[3].k = "id"

\* C11 as stated: a cursor that is malformed, or was issued for another ordering (a rank
\* offset carries no comma), is detected: getNextMarkets never answers it as if it were a
\* position of the served ordering or as if no cursor had been given.
C11_ForeignCursorDetected ==
  (feed.outcome = "returned" /\ feed.cursor # << >>) => IssuedCursor(feed.cursor)

\* a sampling of the segment is waiting in the queue or running on a worker
DiversityPending(segment) ==
  \/ \E j \in Jobs : j.name = "diversity" /\ j.segment = segment /\ queue[j] > 0
  \/ \E w \in 1..Workers : wk[w].job.name = "diversity" /\ wk[w].job.segment = segment
                           /\ wk[w].pc \in DiversityPcs

\* feed:diversity holds a sampling of what feed:top holds now
DiversityDerived(segment) ==
  /\ DOMAIN redis[DiversityKey(segment)] \subseteq DOMAIN redis[TopKey(segment)]
  /\ exists(redis[TopKey(segment)]) => exists(redis[DiversityKey(segment)])

\* C12 as stated, in the form a finite run refutes: when a 'score' job has completed,
\* feed:diversity of its segment is derived from the rebuilt feed:top, or a sampling of
\* the segment is already queued or running, so that none has to be triggered.
C12_RebuildRederivesDiversity ==
  \A w \in 1..Workers :
    (wk[w].job.name = "score" /\ wk[w].pc = "completed")
      => (DiversityDerived(wk[w].job.segment) \/ DiversityPending(wk[w].job.segment))

\* the workers past the reads of applyDiversitySampling: what they write is in list
DiversityWriters ==
  {w \in 1..Workers : wk[w].job.name = "diversity" /\ wk[w].pc \in {"ddel", "dzadd", "dexpire"}}

\* C13: every member applyDiversitySampling writes to feed:diversity is one of the ids it
\* read from the top 100 of feed:top, and it writes no member twice.
C13_SampledFromTopRead ==
  \A w \in DiversityWriters :
    /\ Range(wk[w].list) \subseteq Range(wk[w].top)
    /\ Cardinality(Range(wk[w].list)) = Len(wk[w].list)

C13_Witness ==
  \E w \in DiversityWriters :
    /\ wk[w].pc = "dexpire"
    /\ Len(wk[w].top) = 1
    /\ DOMAIN redis[DiversityKey(wk[w].job.segment)] = Range(wk[w].top)
    /\ Cardinality({i \in Ids : db[i].present}) >= 2

\* C14 as stated: among the accepted markets, any 5 consecutive ones that were all accepted
\* after the first 5 carry 5 different primary tags.
C14_WindowsDiverse ==
  (calc.op = "sample" /\ calc.length >= 2 * DiversityWindow) =>
    \A a, b \in 1..Len(calc.window) : a # b => calc.window[a] # calc.window[b]

\* the place of member m in the ids read from feed:top, best first
RankOf(top, m) == CHOOSE k \in 1..Len(top) : top[k] = m

\* C15 as stated: whatever order the item store returns the rows in, the accepted markets
\* are written to feed:diversity in the relative order they have in feed:top.
C15_SampledInRankOrder ==
  \A w \in DiversityWriters :
    \A a, b \in 1..Len(wk[w].list) :
      a < b => RankOf(wk[w].top, wk[w].list[a]) < RankOf(wk[w].top, wk[w].list[b])

\* the ids of a scored list, and the confidence the list gives an id
ScoredIds(scored) == {scored[k].id : k \in 1..Len(scored)}
ConfidenceIn(scored, i) == scored[CHOOSE k \in 1..Len(scored) : scored[k].id = i].confidence

\* C16: the set a rebuild publishes from N scored markets has min(N, topK) members, each
\* with its own confidence as score, and no market left out has a higher confidence than
\* a member.
C16_TopKCut ==
  calc.op = "slice" =>
    /\ Cardinality(DOMAIN calc.z) = Min(Len(calc.scored), calc.topK)
    /\ DOMAIN calc.z \subseteq ScoredIds(calc.scored)
    /\ \A m \in DOMAIN calc.z :
         /\ calc.z[m] = ConfidenceIn(calc.scored, m)
         /\ \A x \in ScoredIds(calc.scored) \ DOMAIN calc.z :
              calc.z[m] >= ConfidenceIn(calc.scored, x)

C16_Witness ==
  /\ calc.op = "slice"
  /\ Len(calc.scored) > calc.topK
  /\ calc.topK = 2
  /\ calc.scored[1].confidence < calc.scored[3].confidence
  /\ calc.scored[2].confidence = calc.scored[3].confidence

\* fewer scored markets than the program's topK: all of them are published
C16_WitnessAll ==
  /\ calc.op = "slice"
  /\ calc.topK = TopK
  /\ Cardinality(DOMAIN calc.z) = MaxScored

\* C17 as stated: when applyDiversitySampling finds feed:top empty or absent it returns at
\* once without error, and feed:diversity of the segment is empty afterwards.
C17_EmptyTopEmptiesDiversity ==
  [][\A w \in 1..Workers :
       (wk[w].pc = "dzrevrange" /\ wk'[w].pc = "completed")
         => ~exists(redis'[DiversityKey(wk[w].job.segment)])]_vars


\* C18 as stated: a failure while persisting the scores does not abort the rebuild; a rebuild
\* that leaves its persist step goes on to rebuild feed:top and never ends as a thrown failure.
C18_PersistFailureIsolated ==
  [][\A w \in 1..Workers :
       (wk[w].pc = "persist" /\ wk'[w].pc # "persist") => wk'[w].pc = "del"]_vars


\* C19 as stated: the active weight set always sums to 1.0 within 0.001; a configuration or an
\* update whose result does not is rejected and never becomes the active set.
C19_ActiveWeightsSumToOne == validateWeights(weights)


\* C20: handlePull enqueues a ranking rebuild exactly when the cycle counted a new or an
\* updated item or the job was forced: the step that ends a cycle whose fetch returned adds one
\* 'score' job in that case and none otherwise, no earlier step of the cycle touches the
\* queue, and a cycle whose fetch throws ends with the queue as it was.
C20_PullEnqueuesIffStored ==
  [][LET job == ScoreJob("default", FALSE)
     IN /\ (pull.pc = "decide" /\ pull'.pc = "completed")
             => IF pull.new > 0 \/ pull.updated > 0 \/ pull.force
                THEN queue' = [queue EXCEPT ![job] = @ + 1]
                ELSE queue' = queue
        /\ (pull.pc \in PullPcs /\ pull' # pull /\ pull'.pc # "completed")
             => queue' = queue]_vars

\* a cycle that only updated a known market ended and its rebuild is waiting
C20_Witness ==
  /\ pull.pc = "completed"
  /\ pull.new = 0 /\ pull.updated > 0 /\ ~pull.force
  /\ queue[ScoreJob("default", FALSE)] = 1

\* a cycle that stored nothing and was not forced ended with an empty queue
C20_WitnessNone ==
  /\ pull.pc = "completed"
  /\ pull.new = 0 /\ pull.updated = 0 /\ ~pull.force
  /\ QueueLen = 0

\* a cycle whose fetch threw after a market was stored ended with an empty queue
C20_WitnessThrows ==
  /\ pull.pc = "failed"
  /\ pull.new > 0
  /\ QueueLen = 0


\* C21: each call triggerRankingRebuild(segment, force) adds exactly one 'score' job carrying
\* {segment, force} with a delay of 1000 ms to the ranking queue and performs no rebuild
\* synchronously: the item store, the sorted sets and the workers are as before the call.
C21_TriggerAddsOneScoreJob ==
  [][\A s \in Segments, force \in BOOLEAN :
       triggerRankingRebuild(s, force)
         => /\ queue' = [queue EXCEPT
                           ![[name |-> "score", segment |-> s, force |-> force,
                              delay |-> 1000]] = @ + 1]
            /\ UNCHANGED <<rc, sw, rs, db, redis, ttl, wk>>]_vars

\* a forced trigger was called while markets are stored and no worker has started
C21_Witness ==
  /\ queue[[name |-> "score", segment |-> "default", force |-> TRUE, delay |-> 1000]] = 1
  /\ \E i \in Ids : db[i].present
  /\ \A w \in 1..Workers : wk[w].pc = "idle"
  /\ \A k \in Keys : ~exists(redis[k])


\* C22: a failed rebuild blocks nothing: when a 'score' job has failed, the stores are
\* available again and a later trigger's job is waiting, a rebuild eventually completes.
C22_FailedRebuildDoesNotBlock ==
  (/\ wk[1].pc = "failed"
   /\ now = MaxNow
   /\ queue[ScoreJob("default", FALSE)] > 0)
    ~> (wk[1].pc = "completed" /\ wk[1].job.name = "score")

\* a job has failed and the next trigger's job waits behind it
C22_Witness ==
  /\ wk[1].pc = "failed"
  /\ wk[1].job.name = "score"
  /\ now = MaxNow
  /\ queue[ScoreJob("default", FALSE)] > 0


\* C23 as stated: two calls of calculateScore, or two calls of calculateRanking under the same
\* weights, with identical item fields return identical confidence and trendScore.
C23_ScoringDeterministic ==
  (calc.op = "score" /\ Len(calc.calls) = 2
   /\ calc.calls[1].fn = calc.calls[2].fn
   /\ calc.calls[1].market = calc.calls[2].market)
    => (/\ calc.calls[1].confidence = calc.calls[2].confidence
        /\ calc.calls[1].trendScore = calc.calls[2].trendScore)


\* C24: for every item, with null lastChange24h or liquidity included, calculateScore returns
\* a confidence in [0,1] and calculateRanking returns confidence and trendScore in [0,1].
C24_ScoresInUnitInterval ==
  calc.op = "score"
    => \A k \in 1..Len(calc.calls) :
         /\ 0 <= calc.calls[k].confidence /\ calc.calls[k].confidence <= 1000000
         /\ 0 <= calc.calls[k].trendScore /\ calc.calls[k].trendScore <= 1000000

\* calculateScore was called on an item with null fields whose weighted sum exceeds 1, and
\* calculateRanking on one whose trend sum is below 0
C24_Witness ==
  /\ calc.op = "score"
  /\ Len(calc.calls) = 2
  /\ calc.calls[1].fn = "calculateScore"
  /\ calc.calls[1].market.liquidity = Null
  /\ RawScore(calc.calls[1].market, calc.calls[1].t) > 1000000
  /\ calc.calls[2].fn = "calculateRanking"
  /\ calc.calls[2].market.priceChange24 = Null
  /\ calc.calls[2].market.mentionScore < 0


\* C25 as stated: of two items identical except for endDate, both ending in the future,
\* calculateScore gives the one that ends sooner a strictly higher score.
C25_SoonerScoresHigher ==
  (/\ calc.op = "score" /\ Len(calc.calls) = 2
   /\ calc.calls[1].fn = "calculateScore" /\ calc.calls[2].fn = "calculateScore"
   /\ [calc.calls[1].market EXCEPT !.endDate = 0] = [calc.calls[2].market EXCEPT !.endDate = 0]
   /\ calc.calls[1].market.endDate > calc.calls[1].t
   /\ calc.calls[2].market.endDate > calc.calls[2].t
   /\ calc.calls[1].market.endDate < calc.calls[2].market.endDate)
    => calc.calls[1].confidence > calc.calls[2].confidence


\* C26 as stated: after any number of recordSwipe calls, sequential or concurrent, by one user
\* for one active market, exactly one swipe row exists, the stats were incremented exactly
\* once, and every call other than the one that created the swipe returns success with
\* xpGained = 0.
C26_RecordSwipeIdempotent ==
  /\ sw.totalSwipes = Cardinality(sw.rows)
  /\ \A c \in 1..Callers :
       (rs[c].pc = "done" /\ rs[c].token = 0 /\ rs[c].outcome # "badRequest")
         => /\ rs[c].outcome = "success"
            /\ ~rs[c].created => rs[c].xpGained = 0

\* C27 as stated: the first recordSwipe carrying an issued token that has not expired, for a
\* market the user has not swiped, succeeds.
C27_TokenAcceptedOnce ==
  \A c \in 1..Callers :
    (rs[c].pc = "done" /\ rs[c].first /\ rs[c].seen = "issued")
      => rs[c].outcome = "success"


\* the sorted sets and expiries of every segment but s are the same after the step
OthersUnchanged(s) ==
  \A t \in AllSegments \ {s} :
    /\ redis'[TopKey(t)] = redis[TopKey(t)]
    /\ redis'[DiversityKey(t)] = redis[DiversityKey(t)]
    /\ ttl'[TopKey(t)] = ttl[TopKey(t)]
    /\ ttl'[DiversityKey(t)] = ttl[DiversityKey(t)]

\* C28: a step of rebuildRankings(s) or applyDiversitySampling(s) leaves feed:top:<t> and
\* feed:diversity:<t> of every other segment t as they were, and getTopMarkets and
\* getRankingStats change no sorted set.
C28_OnlyOwnSegmentChanges ==
  [][/\ \A w \in 1..Workers :
          (Rebuild({w}) \/ Diversity({w})) => OthersUnchanged(wk[w].job.segment)
     /\ (ReadAll \/ Stats) => UNCHANGED <<rc, redis, ttl>>]_vars

\* a rebuild of 'default' has just cleared feed:top:default while both sorted sets of
\* 'trending' are published
C28_Witness ==
  /\ wk[1].pc = "zadd"
  /\ wk[1].job.segment = "default"
  /\ ~exists(redis[TopKey("default")])
  /\ exists(wk[1].pre)
  /\ exists(redis[TopKey("trending")])
  /\ exists(redis[DiversityKey("trending")])


\* C29 as stated: whenever no rebuild and no recalculation is in progress, every member of
\* feed:top:<segment> has a sorted-set score equal to the confidence persisted on the item.
C29_TopScoresMatchStore ==
  (/\ \A w \in 1..Workers : wk[w].pc \notin RebuildPcs
   /\ rc.pc = "idle")
    => \A s \in AllSegments :
         \A m \in DOMAIN redis[TopKey(s)] : redis[TopKey(s)][m] = db[m].confidence


\* C30: executeTransaction runs the transaction function at most maxRetries times and, while
\* it has not ended, fewer times than that; every run that was followed by another ended in a
\* conflict, unique-violation, deadlock or serialization error; it returns exactly when a run
\* succeeded, with that run's result; and it throws after a run that failed with another
\* error or that was the last run allowed.
C30_BoundedRetries ==
  calc.op = "tx"
    => LET n == Len(calc.log)
       IN /\ n <= calc.maxRetries
          /\ calc.state = "try" => n < calc.maxRetries
          /\ \A k \in 1..(n - 1) :
               calc.log[k] \in {"P2034", "P2002", "deadlock", "serialization"}
          /\ calc.state = "returned" => (n > 0 /\ calc.log[n] = "ok" /\ calc.result = n)
          /\ (calc.state = "thrown" /\ n > 0)
               => (calc.log[n] # "ok" /\ (calc.log[n] = "other" \/ n = calc.maxRetries))
          /\ (calc.state = "try" /\ n > 0) => calc.log[n] # "ok"

\* the third run succeeded after two retried errors and its result was returned
C30_Witness ==
  /\ calc.op = "tx"
  /\ calc.maxRetries = 3
  /\ calc.log = <<"P2034", "deadlock", "ok">>
  /\ calc.state = "returned"

\* the last run allowed failed with a retryable error and the error was thrown
C30_WitnessExhausted ==
  /\ calc.op = "tx"
  /\ calc.maxRetries = 3
  /\ calc.log = <<"P2002", "serialization", "P2034">>
  /\ calc.state = "thrown"

====
